---- MODULE Spec2Model ----
(***************************************************************************)
(* Model of app.py, the Pacific PFM regional coordination dashboard: the   *)
(* normalisation helpers (norm_code, score_band, extract_code,             *)
(* safe_float), the row source (fetch, load_all_data) and the three        *)
(* request handlers (overview, countries, country).                        *)
(*                                                                         *)
(* Python strings are sequences of one-character strings, so that strip,   *)
(* replace, upper, lower, substring search and float parsing are computed  *)
(* and not assumed.  Python values are tagged records: None, a str, a     *)
(* dict (its items in payload order) or a float held as a scaled integer   *)
(* (Scale units per 1.0).                                                  *)
(*                                                                         *)
(* SpecHelpers applies each helper to one argument.  Spec serves one       *)
(* request against a sheet whose tabs hold any rows of the pools below.    *)
(* SpecLive is Spec with the sheet edited while the request runs.          *)
(***************************************************************************)
EXTENDS Integers, Sequences, FiniteSets, TLC

\* ------------------------------------------------------------------------
\* Bounds of the model
\* ------------------------------------------------------------------------
\* longest raw code string handed to norm_code in the helper specification
MaxLen == 4
\* fractional decimal digits a float of the model carries
FracDigits == 1
\* score cells of the helper specification are the numbers 0 .. MaxScore
MaxScore == 100
\* most key/value pairs of a record handed to extract_code
MaxKeys == 3
\* most rows of the countries / assessments / practices table
MaxCountries == 2
MaxPefa == 2
MaxPractices == 1
\* most updates of the external sheet during one request
MaxUpdates == 1

\* ------------------------------------------------------------------------
\* Characters and strings
\* ------------------------------------------------------------------------
\* U+00A0, the non-breaking space
NBSP == "NBSP"

UpperLetters ==
    <<"A", "B", "C", "D", "E", "F", "G", "H", "I", "J", "K", "L", "M",
      "N", "O", "P", "Q", "R", "S", "T", "U", "V", "W", "X", "Y", "Z">>

LowerLetters ==
    <<"a", "b", "c", "d", "e", "f", "g", "h", "i", "j", "k", "l", "m",
      "n", "o", "p", "q", "r", "s", "t", "u", "v", "w", "x", "y", "z">>

Digits == <<"0", "1", "2", "3", "4", "5", "6", "7", "8", "9">>

\* the characters of the model in code point order (what str comparison uses)
Alphabet ==
    <<"\t", " ", "#", "%", "&", "(", ")", "-", ".", "/">> \o Digits \o <<":">>
    \o UpperLetters \o <<"_">> \o LowerLetters \o <<NBSP>>

\* the characters str.strip() removes
Whitespace == {"\t", " ", NBSP}

IndexIn(seq, ch) == CHOOSE i \in 1..Len(seq) : seq[i] = ch

IsIn(seq, ch) == \E i \in 1..Len(seq) : seq[i] = ch

\* ord(ch), up to an order-preserving renumbering
Ord(ch) == IndexIn(Alphabet, ch)

UpperChar(ch) == IF IsIn(LowerLetters, ch) THEN UpperLetters[IndexIn(LowerLetters, ch)] ELSE ch

LowerChar(ch) == IF IsIn(UpperLetters, ch) THEN LowerLetters[IndexIn(UpperLetters, ch)] ELSE ch

\* str.upper()
Upper(s) == [i \in 1..Len(s) |-> UpperChar(s[i])]

\* str.lower()
Lower(s) == [i \in 1..Len(s) |-> LowerChar(s[i])]

\* str.replace(ch, "")
RemoveChar(s, ch) == SelectSeq(s, LAMBDA c : c # ch)

RECURSIVE LStrip(_)
LStrip(s) == IF s # <<>> /\ Head(s) \in Whitespace THEN LStrip(Tail(s)) ELSE s

RECURSIVE RStrip(_)
RStrip(s) ==
    IF s # <<>> /\ s[Len(s)] \in Whitespace THEN RStrip(SubSeq(s, 1, Len(s) - 1)) ELSE s

\* str.strip()
Strip(s) == RStrip(LStrip(s))

\* sub in s
Contains(s, sub) ==
    \E i \in 0..(Len(s) - Len(sub)) : \A k \in 1..Len(sub) : s[i + k] = sub[k]

\* s < t for two str, by code points
RECURSIVE StrLess(_, _)
StrLess(s, t) ==
    IF t = <<>> THEN FALSE
    ELSE IF s = <<>> THEN TRUE
    ELSE IF Head(s) = Head(t) THEN StrLess(Tail(s), Tail(t))
    ELSE Ord(Head(s)) < Ord(Head(t))

\* ------------------------------------------------------------------------
\* Python values
\* ------------------------------------------------------------------------
None == [tag |-> "none"]

Str(s) == [tag |-> "str", s |-> s]

Float(x) == [tag |-> "float", x |-> x]

\* a dict of the JSON payload: its items are <<key, value>> pairs with distinct
\* str keys, in the order of the payload
Dict(items) == [tag |-> "dict", items |-> items]

\* units per 1.0 of a float of the model
RECURSIVE Pow10(_)
Pow10(n) == IF n = 0 THEN 1 ELSE 10 * Pow10(n - 1)

Scale == Pow10(FracDigits)

\* bool(v)
Truthy(v) ==
    CASE v.tag = "none" -> FALSE
      [] v.tag = "str" -> v.s # <<>>
      [] v.tag = "float" -> v.x # 0
      [] v.tag = "dict" -> v.items # <<>>

\* v or d
Or(v, d) == IF Truthy(v) THEN v ELSE d

\* decimal digits of a natural number
RECURSIVE NatStr(_)
NatStr(n) == IF n < 10 THEN <<Digits[n + 1]>> ELSE NatStr(n \div 10) \o <<Digits[(n % 10) + 1]>>

\* the fractional digits of f, f < Pow10(width), without trailing zeros but never empty
RECURSIVE FracStr(_, _)
FracStr(f, width) ==
    IF width = 1 THEN <<Digits[f + 1]>>
    ELSE IF f % 10 = 0 THEN FracStr(f \div 10, width - 1)
    ELSE FracStr(f \div 10, width - 1) \o <<Digits[(f % 10) + 1]>>

\* str(x) of a float: "90.0", "84.9", "-5.0"
FloatStr(x) ==
    LET a == IF x < 0 THEN 0 - x ELSE x
        body == NatStr(a \div Scale) \o <<".">> \o FracStr(a % Scale, FracDigits)
    IN IF x < 0 THEN <<"-">> \o body ELSE body

\* str(v)
PyStr(v) ==
    CASE v.tag = "none" -> <<"N", "o", "n", "e">>
      [] v.tag = "str" -> v.s
      [] v.tag = "float" -> FloatStr(v.x)

AllDigits(s) == \A i \in 1..Len(s) : IsIn(Digits, s[i])

RECURSIVE DigitsVal(_)
DigitsVal(s) ==
    IF s = <<>> THEN 0 ELSE 10 * DigitsVal(SubSeq(s, 1, Len(s) - 1)) + (IndexIn(Digits, s[Len(s)]) - 1)

\* the first FracDigits digits of a fraction, padded with zeros on the right
FracVal(s) ==
    LET k == IF Len(s) < FracDigits THEN Len(s) ELSE FracDigits
    IN DigitsVal(SubSeq(s, 1, k)) * Pow10(FracDigits - k)

\* float(s) for a str s: [ok, x]; ok = FALSE stands for the ValueError.
\* Accepted: optional whitespace, optional sign, digits with an optional
\* decimal point ("85", "84.9", "85.", ".5"); of a fraction the first
\* FracDigits digits count.  Exponents, underscores, "inf" and "nan" are
\* spellings float() takes too; no cell of the model is written that way.
ParseFloat(s) ==
    LET t == Strip(s)
        signed == t # <<>> /\ Head(t) \in {"-", "+"}
        u == IF signed THEN Tail(t) ELSE t
        hasDot == IsIn(u, ".")
        dot == IF hasDot THEN IndexIn(u, ".") ELSE Len(u) + 1
        ip == SubSeq(u, 1, dot - 1)
        fp == SubSeq(u, dot + 1, Len(u))
        ok == AllDigits(ip) /\ AllDigits(fp) /\ (ip # <<>> \/ fp # <<>>)
        mag == DigitsVal(ip) * Scale + FracVal(fp)
    IN IF ok
       THEN [ok |-> TRUE, x |-> IF signed /\ Head(t) = "-" THEN 0 - mag ELSE mag]
       ELSE [ok |-> FALSE, x |-> 0]

\* ------------------------------------------------------------------------
\* HELPERS of app.py
\* ------------------------------------------------------------------------
\* norm_code without the replace of the non-breaking space
norm_code_noreplace(v) == Upper(Strip(PyStr(Or(v, Str(<<>>)))))

\* norm_code(v): str(v or "").replace(" ", "").strip().upper()
norm_code(v) == Upper(Strip(RemoveChar(PyStr(Or(v, Str(<<>>))), NBSP)))

\* score_band with an open lower bound of the "Strong" band
score_band_open(score) ==
    LET p == ParseFloat(PyStr(score))
    IN IF ~p.ok THEN "N/A"
       ELSE IF p.x >= 85 * Scale THEN "Very Strong"
       ELSE IF p.x > 70 * Scale THEN "Strong"
       ELSE IF p.x >= 55 * Scale THEN "Moderate"
       ELSE "Weak"

\* score_band(score)
score_band(score) ==
    LET p == ParseFloat(PyStr(score))
    IN IF ~p.ok THEN "N/A"
       ELSE IF p.x >= 85 * Scale THEN "Very Strong"
       ELSE IF p.x >= 70 * Scale THEN "Strong"
       ELSE IF p.x >= 55 * Scale THEN "Moderate"
       ELSE "Weak"

\* safe_float(v)
safe_float(v) ==
    LET p == ParseFloat(PyStr(v))
    IN IF p.ok THEN Float(p.x) ELSE Float(0)

\* row.get(key)
Get(row, key) ==
    IF \E i \in 1..Len(row.items) : row.items[i][1] = key
    THEN row.items[CHOOSE i \in 1..Len(row.items) : row.items[i][1] = key][2]
    ELSE None

\* the loop of extract_code comparing the key as written, not its lowercase form
RECURSIVE FirstCodeLikeCased(_)
FirstCodeLikeCased(items) ==
    IF items = <<>> THEN <<>>
    ELSE IF Contains(Head(items)[1], <<"c", "o", "d", "e">>)
         THEN norm_code(Head(items)[2])
    ELSE FirstCodeLikeCased(Tail(items))

\* the loop of extract_code over the items
RECURSIVE FirstCodeLike(_)
FirstCodeLike(items) ==
    IF items = <<>> THEN <<>>
    ELSE IF Contains(Lower(Head(items)[1]), <<"c", "o", "d", "e">>)
         THEN norm_code(Head(items)[2])
    ELSE FirstCodeLike(Tail(items))

\* extract_code(row): over (row or {}).items(), returning at the first key
\* whose lowercase form contains "code"
extract_code(row) == FirstCodeLike(Or(row, Dict(<<>>)).items)

\* ------------------------------------------------------------------------
\* State
\* ------------------------------------------------------------------------
VARIABLES
    hfn,              \* helper specification: the helper under call
    harg,             \* its argument
    hnum,             \* what the argument was written from
    hres,             \* its result
    hres2,            \* the result of norm_code applied to its own result
    hpc,              \* "call", "again", "done"; "off" outside the helper specification
    sheetVer,         \* how many times the external sheet was edited
    pc,               \* the request: "idle", "fetch", "render", "done"
    route,            \* "overview", "countries", "country"; "none" before the request
    code,             \* country(code): the code after line 210
    pending,          \* tabs still to fetch, in the order of the handler
    country_profiles, \* fetch("countries") (rows in countries())
    pefa_rows,        \* fetch("pefa")
    practices_rows,   \* fetch("practices")
    fetchLog,         \* every fetch of the request: tab, whether it succeeded, sheet version
    outcome,          \* "none", "view", "notfound" (404), "error" (the fetch raised)
    view              \* what the handler hands to render_template

hvars == <<hfn, harg, hnum, hres, hres2, hpc>>

rvars ==
    <<sheetVer, pc, route, code, pending, country_profiles, pefa_rows,
      practices_rows, fetchLog, outcome, view>>

vars == <<hvars, rvars>>

NoView == [kind |-> "none"]

\* the request part of the state while the helpers are exercised
RequestOff ==
    /\ sheetVer = 0
    /\ pc = "off"
    /\ route = "none"
    /\ code = <<>>
    /\ pending = <<>>
    /\ country_profiles = <<>>
    /\ pefa_rows = <<>>
    /\ practices_rows = <<>>
    /\ fetchLog = <<>>
    /\ outcome = "none"
    /\ view = NoView

\* the helper part of the state while requests are served
HelpersOff ==
    /\ hfn = "none"
    /\ harg = None
    /\ hnum = None
    /\ hres = None
    /\ hres2 = None
    /\ hpc = "off"

\* ------------------------------------------------------------------------
\* Helper specification: each helper applied to one argument
\* ------------------------------------------------------------------------
\* all sequences over S of length at most n
RECURSIVE SeqsUpTo(_, _)
SeqsUpTo(S, n) ==
    IF n = 0 THEN {<<>>}
    ELSE LET shorter == SeqsUpTo(S, n - 1)
         IN shorter \cup {Append(q, x) : q \in {r \in shorter : Len(r) = n - 1}, x \in S}

CodeChars == {"k", "E", " ", "\t", NBSP}

\* arguments of norm_code: None, every str over CodeChars up to MaxLen, two floats
CodeArgs ==
    {None} \cup {Str(q) : q \in SeqsUpTo(CodeChars, MaxLen)} \cup {Float(0), Float(12 * Scale)}

\* the ways a number is written into a cell
Renderings == {"float", "padded", "int", "intdot", "negative", "value"}

Renderable(x, how) == how \in {"int", "intdot"} => x % Scale = 0

Render(x, how) ==
    CASE how = "float" -> Str(FloatStr(x))
      [] how = "padded" -> Str(<<" ">> \o FloatStr(x) \o <<"\t", NBSP>>)
      [] how = "int" -> Str(NatStr(x \div Scale))
      [] how = "intdot" -> Str(NatStr(x \div Scale) \o <<".">>)
      [] how = "negative" -> Str(<<"-">> \o FloatStr(x))
      [] how = "value" -> Float(x)

RenderedNumber(x, how) == IF how = "negative" THEN 0 - x ELSE x

\* cells that are not numbers
Garbage ==
    {None, Str(<<>>), Str(<<" ">>), Str(<<"a", "b", "c">>), Str(<<"N", "/", "A">>),
     Str(<<"8", "5", "%">>), Str(<<"8", " ", "5">>), Str(<<"-">>), Str(<<".">>),
     Str(<<"1", ".", "2", ".", "3">>), Str(<<"-", "-", "5">>)}

\* keys of a record, each with whether its lowercase form contains "code"
KeyPool ==
    {[key |-> <<"C", "o", "d", "e">>, codeLike |-> TRUE],
     [key |-> <<"C", "o", "u", "n", "t", "r", "y", " ", " ", "C", "o", "d", "e", " ">>,
      codeLike |-> TRUE],
     [key |-> <<"I", "S", "O", " ", "C", "O", "D", "E">>, codeLike |-> TRUE],
     [key |-> <<"C", "o", "u", "n", "t", "r", "y">>, codeLike |-> FALSE],
     [key |-> <<"C", "o", " ", "d", "e">>, codeLike |-> FALSE]}

ValuePool == {Str(<<" ", "k", "e", NBSP>>), Str(<<"T", "Z">>), Str(<<>>)}

\* records: at most MaxKeys pairs with distinct keys, in every order
RowPool ==
    {q \in SeqsUpTo(KeyPool \X ValuePool, MaxKeys) :
        \A i, j \in 1..Len(q) : i # j => q[i][1].key # q[j][1].key}

RowOf(q) == Dict([i \in 1..Len(q) |-> <<q[i][1].key, q[i][2]>>])

LabelsOf(q) == [i \in 1..Len(q) |-> q[i][1].codeLike]

InitHelpers ==
    /\ RequestOff
    /\ hpc = "call"
    /\ hres = None
    /\ hres2 = None
    /\ \/ /\ hfn = "norm_code"
          /\ harg \in CodeArgs
          /\ hnum = None
       \/ /\ hfn = "score_band"
          /\ \E x \in 0..(MaxScore * Scale), how \in Renderings :
                /\ Renderable(x, how)
                /\ harg = Render(x, how)
                /\ hnum = Float(RenderedNumber(x, how))
       \/ /\ hfn = "score_band"
          /\ harg \in Garbage
          /\ hnum = None
       \/ /\ hfn = "extract_code"
          /\ \E q \in RowPool :
                /\ harg = RowOf(q)
                /\ hnum = LabelsOf(q)
       \/ /\ hfn = "extract_code"
          /\ harg = None
          /\ hnum = <<>>

CallNormCode ==
    /\ hfn = "norm_code" /\ hpc = "call"
    /\ hres' = Str(norm_code(harg))
    /\ hpc' = "again"
    /\ UNCHANGED <<hfn, harg, hnum, hres2, rvars>>

CallNormCodeAgain ==
    /\ hfn = "norm_code" /\ hpc = "again"
    /\ hres2' = Str(norm_code(hres))
    /\ hpc' = "done"
    /\ UNCHANGED <<hfn, harg, hnum, hres, rvars>>

CallScoreBand ==
    /\ hfn = "score_band" /\ hpc = "call"
    /\ hres' = score_band(harg)
    /\ hpc' = "done"
    /\ UNCHANGED <<hfn, harg, hnum, hres2, rvars>>

CallExtractCode ==
    /\ hfn = "extract_code" /\ hpc = "call"
    /\ hres' = Str(extract_code(harg))
    /\ hpc' = "done"
    /\ UNCHANGED <<hfn, harg, hnum, hres2, rvars>>

NextHelpers == CallNormCode \/ CallNormCodeAgain \/ CallScoreBand \/ CallExtractCode

SpecHelpers == InitHelpers /\ [][NextHelpers]_vars

\* ------------------------------------------------------------------------
\* Properties of the helpers (SpecHelpers)
\* ------------------------------------------------------------------------
Bands == {"Very Strong", "Strong", "Moderate", "Weak", "N/A"}

C7_ExtractCodeFirst ==
    (hfn = "extract_code" /\ hpc = "done") =>
        IF \E i \in 1..Len(hnum) : hnum[i]
        THEN LET first == CHOOSE i \in 1..Len(hnum) : hnum[i] /\ \A j \in 1..(i - 1) : ~hnum[j]
             IN hres = Str(norm_code(harg.items[first][2]))
        ELSE hres = Str(<<>>)

\* a record whose second and third keys are code-like with different codes
\* gave the second key's code
C7_Witness ==
    /\ hfn = "extract_code" /\ hpc = "done"
    /\ Len(hnum) = 3 /\ ~hnum[1] /\ hnum[2] /\ hnum[3]
    /\ norm_code(harg.items[2][2]) # norm_code(harg.items[3][2])
    /\ hres = Str(<<"K", "E">>)

CleanCode(s) ==
    /\ \A i \in 1..Len(s) : s[i] # NBSP /\ ~IsIn(LowerLetters, s[i])
    /\ s # <<>> => (Head(s) \notin Whitespace /\ s[Len(s)] \notin Whitespace)

\* C8: norm_code is idempotent, and its result holds no non-breaking
\* space, no leading or trailing whitespace and no lowercase letter.
C8_NormCodeIdempotent ==
    /\ (hfn = "norm_code" /\ hpc \in {"again", "done"}) => CleanCode(hres.s)
    /\ (hfn = "norm_code" /\ hpc = "done") => hres2 = hres

\* " k<nbsp>E" was normalized to "KE", twice
C8_Witness ==
    /\ hfn = "norm_code" /\ hpc = "done"
    /\ harg = Str(<<" ", "k", NBSP, "E">>)
    /\ hres = Str(<<"K", "E">>)
    /\ hres2 = hres

\* ------------------------------------------------------------------------
\* CONFIG of app.py and the keys the handlers look up
\* ------------------------------------------------------------------------
\* TABS, without "summary", which no handler fetches
TABS == {"countries", "pefa", "practices"}

DIM_COLUMNS ==
    << <<"D", "i", "m", " ", "1", ":", " ", "P", "F", "M", " ", "A", "s", "s", "e", "s", "s",
         "m", "e", "n", "t", "s">>,
       <<"D", "i", "m", " ", "2", ":", " ", "C", "l", "i", "m", "a", "t", "e", " ", "R", "i",
         "s", "k">>,
       <<"D", "i", "m", " ", "3", ":", " ", "F", "i", "s", "c", "a", "l", " ", "R", "i", "s",
         "k", " ", "M", "g", "m", "t">>,
       <<"D", "i", "m", " ", "4", ":", " ", "F", "i", "n", "a", "n", "c", "e", " ", "M", "o",
         "b", "i", "l", "i", "s", "a", "t", "i", "o", "n">>,
       <<"D", "i", "m", " ", "5", ":", " ", "C", "a", "p", "a", "b", "i", "l", "i", "t", "i",
         "e", "s">> >>

KeyCountry == <<"C", "o", "u", "n", "t", "r", "y">>
KeyCode == <<"C", "o", "d", "e">>
KeyOverallScore == <<"O", "v", "e", "r", "a", "l", "l", " ", "S", "c", "o", "r", "e">>
KeyPefaCount == <<"P", "E", "F", "A", " ", "C", "o", "u", "n", "t">>
KeyReformPlan == <<"R", "e", "f", "o", "r", "m", " ", "P", "l", "a", "n">>
KeyGcfReadiness == <<"G", "C", "F", " ", "R", "e", "a", "d", "i", "n", "e", "s", "s">>
KeyPefaAssessments ==
    <<"P", "E", "F", "A", "_", "A", "s", "s", "e", "s", "s", "m", "e", "n", "t", "s">>
KeyNumPefaAssessments ==
    <<"#", " ", "P", "E", "F", "A", " ", "A", "s", "s", "e", "s", "s", "m", "e", "n", "t", "s">>
KeyLatestPefaYear ==
    <<"L", "a", "t", "e", "s", "t", " ", "P", "E", "F", "A", " ", "Y", "e", "a", "r">>
KeyPfmReformPlan == <<"P", "F", "M", " ", "R", "e", "f", "o", "r", "m", " ", "P", "l", "a", "n">>
KeyOtherAssessments ==
    <<"O", "t", "h", "e", "r", " ", "P", "F", "M", " ", "&", " ", "C", "l", "i", "m", "a", "t",
      "e", " ", "F", "i", "n", "a", "n", "c", "e", " ", "A", "s", "s", "e", "s", "s", "m", "e",
      "n", "t", "s">>
KeyLatestActivities ==
    <<"L", "a", "t", "e", "s", "t", " ", "P", "F", "M", " ", "A", "c", "t", "i", "v", "i", "t",
      "i", "e", "s">>
KeyLatestActivitiesFY ==
    KeyLatestActivities \o
    <<" ", "(", "P", "F", "T", "A", "C", " ", "C", "o", "u", "n", "t", "r", "y", " ", "W", "o",
      "r", "k", "p", "l", "a", "n", "s", " ", "F", "Y", " ", "2", "5", "/", "2", "6", ")">>
KeyReportLink ==
    <<"P", "E", "F", "A", " ", "R", "e", "p", "o", "r", "t", "/", "P", "o", "r", "t", "a", "l",
      " ", "L", "i", "n", "k">>
KeyPracticeArea == <<"P", "r", "a", "c", "t", "i", "c", "e", " ", "A", "r", "e", "a">>
KeyDescription == <<"D", "e", "s", "c", "r", "i", "p", "t", "i", "o", "n">>
KeyReplicability == <<"R", "e", "p", "l", "i", "c", "a", "b", "i", "l", "i", "t", "y">>

Empty == Str(<<>>)

\* row.get(key, "")
GetOrEmpty(row, key) ==
    IF \E i \in 1..Len(row.items) : row.items[i][1] = key THEN Get(row, key) ELSE Empty

\* f"/country/{code}"
Url(c) == <<"/", "c", "o", "u", "n", "t", "r", "y", "/">> \o c

\* ------------------------------------------------------------------------
\* list.sort: stable; with reverse=True equal keys keep their order too
\* ------------------------------------------------------------------------
\* e put ahead of every entry whose score is not above its own
InsertByScoreDescUnstable(sorted, e) ==
    LET k == Cardinality({i \in 1..Len(sorted) : sorted[i].score.x > e.score.x})
    IN SubSeq(sorted, 1, k) \o <<e>> \o SubSeq(sorted, k + 1, Len(sorted))

\* e put behind every entry whose score is not below its own
InsertByScoreDesc(sorted, e) ==
    LET k == Cardinality({i \in 1..Len(sorted) : sorted[i].score.x >= e.score.x})
    IN SubSeq(sorted, 1, k) \o <<e>> \o SubSeq(sorted, k + 1, Len(sorted))

\* entries.sort(key=lambda x: x["score"], reverse=True)
RECURSIVE SortByScoreDesc(_)
SortByScoreDesc(entries) ==
    IF entries = <<>> THEN <<>>
    ELSE InsertByScoreDesc(SortByScoreDesc(SubSeq(entries, 1, Len(entries) - 1)),
                           entries[Len(entries)])

\* e put behind every entry whose Country is not above its own
InsertByCountry(sorted, e) ==
    LET k == Cardinality({i \in 1..Len(sorted) : ~StrLess(e.Country.s, sorted[i].Country.s)})
    IN SubSeq(sorted, 1, k) \o <<e>> \o SubSeq(sorted, k + 1, Len(sorted))

\* countries_list.sort(key=lambda x: x.get("Country") or "")
RECURSIVE SortByCountry(_)
SortByCountry(entries) ==
    IF entries = <<>> THEN <<>>
    ELSE InsertByCountry(SortByCountry(SubSeq(entries, 1, Len(entries) - 1)),
                         entries[Len(entries)])

\* ------------------------------------------------------------------------
\* ROUTES of app.py: what each handler computes from the fetched tables
\* ------------------------------------------------------------------------
\* the number of rows that satisfy Test
CountRows(rows, Test(_)) == Cardinality({i \in 1..Len(rows) : Test(rows[i])})

\* overview: summary_metrics, without avg_overall
SummaryMetrics(profiles, practices) ==
    [countries_total |-> Len(profiles),
     pefa_count |->
         CountRows(profiles, LAMBDA c : Strip(PyStr(GetOrEmpty(c, KeyPefaCount))) # <<>>),
     reform_plan_count |->
         CountRows(profiles, LAMBDA c : Lower(PyStr(GetOrEmpty(c, KeyReformPlan))) = <<"y", "e", "s">>),
     gcf_count |->
         CountRows(profiles, LAMBDA c : Lower(PyStr(GetOrEmpty(c, KeyGcfReadiness))) = <<"y", "e", "s">>),
     good_practices |-> Len(practices)]

\* overview: band_counts, counted from the raw Overall Score cell
BandCounts(profiles) ==
    [b \in Bands |-> CountRows(profiles, LAMBDA c : score_band(Get(c, KeyOverallScore)) = b)]

\* overview: the loop that builds country_scores, before the sort
RECURSIVE CountryScores(_)
CountryScores(profiles) ==
    IF profiles = <<>> THEN <<>>
    ELSE LET c == Head(profiles)
             name == Or(Get(c, KeyCountry), Empty)
             ccode == norm_code(Get(c, KeyCode))
             score == safe_float(Get(c, KeyOverallScore))
             band == score_band(score)
         IN (IF Truthy(name) /\ ccode # <<>>
             THEN << [name |-> name, score |-> score, band |-> band, url |-> Url(ccode)] >>
             ELSE <<>>)
            \o CountryScores(Tail(profiles))

\* countries: the loop that builds countries_list, before the sort
CountriesList(rows) ==
    [i \in 1..Len(rows) |->
        LET overall == safe_float(Get(rows[i], KeyOverallScore))
        IN [Country |-> Or(Get(rows[i], KeyCountry), Empty),
            Code |-> norm_code(Get(rows[i], KeyCode)),
            OverallScore |-> overall,
            ScoreBand |-> score_band(overall)]]

\* countries: map_data; of two entries with one Code the later one stays
MapData(countries_list) ==
    LET coded == {i \in 1..Len(countries_list) : countries_list[i].Code # <<>>}
        last(cd) == CHOOSE i \in coded :
                        /\ countries_list[i].Code = cd
                        /\ \A j \in coded : countries_list[j].Code = cd => j <= i
    IN [cd \in {countries_list[i].Code : i \in coded} |->
           [name |-> countries_list[last(cd)].Country,
            band |-> countries_list[last(cd)].ScoreBand,
            score |-> countries_list[last(cd)].OverallScore,
            url |-> Url(cd)]]

\* country: next((c for c in country_profiles if norm_code(c.get("Code")) == code), None)
RECURSIVE FindCountry(_, _)
FindCountry(profiles, cd) ==
    IF profiles = <<>> THEN None
    ELSE IF norm_code(Get(Head(profiles), KeyCode)) = cd THEN Head(profiles)
    ELSE FindCountry(Tail(profiles), cd)

\* country: country_obj
CountryObj(country_row) ==
    [Country |-> Or(Get(country_row, KeyCountry), Empty),
     Code |-> Or(Get(country_row, KeyCode), Empty),
     OverallScore |-> safe_float(Get(country_row, KeyOverallScore)),
     ScoreBand |-> score_band(Get(country_row, KeyOverallScore))]

\* country: dims, in the order of DIM_COLUMNS
Dims(country_row) == [d \in 1..Len(DIM_COLUMNS) |-> safe_float(Get(country_row, DIM_COLUMNS[d]))]

\* country: one entry of country_pefa
PefaEntry(p) ==
    [assessments |-> Or(Or(Get(p, KeyPefaAssessments), Get(p, KeyNumPefaAssessments)), Empty),
     latest_year |-> Or(Get(p, KeyLatestPefaYear), Empty),
     reform_plan |-> Or(Get(p, KeyPfmReformPlan), Empty),
     other_assessments |-> Or(Get(p, KeyOtherAssessments), Empty),
     latest_pfm_activities |->
         Or(Or(Get(p, KeyLatestActivitiesFY), Get(p, KeyLatestActivities)), Empty),
     link |-> Or(Get(p, KeyReportLink), Empty)]

\* country: one entry of country_practices
PracticeEntry(g) ==
    [area |-> Or(Get(g, KeyPracticeArea), Empty),
     description |-> Or(Get(g, KeyDescription), Empty),
     replicability |-> Or(Get(g, KeyReplicability), Empty)]

\* the satellite loops matching only the column named "Code"
RECURSIVE MatchingRowsByCodeColumn(_, _)
MatchingRowsByCodeColumn(rows, cd) ==
    IF rows = <<>> THEN <<>>
    ELSE (IF norm_code(Get(Head(rows), KeyCode)) = cd THEN <<Head(rows)>> ELSE <<>>)
         \o MatchingRowsByCodeColumn(Tail(rows), cd)

\* country: the loops over pefa_rows and practices_rows, "if extract_code(p) == code"
RECURSIVE MatchingRows(_, _)
MatchingRows(rows, cd) ==
    IF rows = <<>> THEN <<>>
    ELSE (IF extract_code(Head(rows)) = cd THEN <<Head(rows)>> ELSE <<>>)
         \o MatchingRows(Tail(rows), cd)

MapSeq(seq, F(_)) == [i \in 1..Len(seq) |-> F(seq[i])]

\* ------------------------------------------------------------------------
\* The sheet: rows the three tabs may hold
\* ------------------------------------------------------------------------
CountryPool ==
    {Dict(<< <<KeyCountry, Str(<<"K", "e">>)>>, <<KeyCode, Str(<<"K", "E">>)>>,
             <<KeyOverallScore, Str(<<"9", "0">>)>> >>),
     Dict(<< <<KeyCountry, Str(<<"T", "z">>)>>, <<KeyCode, Str(<<" ", "t", "z", NBSP>>)>>,
             <<KeyOverallScore, Str(<<"9", "0">>)>> >>),
     Dict(<< <<KeyCountry, Str(<<"F", "j">>)>>, <<KeyCode, Str(<<"F", "J">>)>>,
             <<KeyOverallScore, Str(<<>>)>> >>),
     Dict(<< <<KeyCountry, Str(<<"N", "a">>)>>, <<KeyOverallScore, Str(<<"9", "5">>)>> >>),
     Dict(<< <<KeyCode, Str(<<"Z", "M">>)>>, <<KeyOverallScore, Str(<<"6", "0">>)>> >>)}

PefaPool ==
    {Dict(<< <<<<"C", "o", "u", "n", "t", "r", "y", " ", " ", "C", "o", "d", "e", " ">>,
               Str(<<" ", " ", "k", "e", " ">>)>>,
             <<KeyLatestPefaYear, Str(<<"2", "0", "1", "9">>)>> >>),
     Dict(<< <<KeyCode, Str(<<"Z", "Z">>)>>, <<KeyPefaAssessments, Str(<<"2">>)>> >>),
     Dict(<< <<KeyNumPefaAssessments, Str(<<"3">>)>>,
             <<<<"I", "S", "O", " ", "C", "O", "D", "E">>, Str(<<"K", "E">>)>>,
             <<KeyCode, Str(<<"T", "Z">>)>> >>)}

PracticePool ==
    {Dict(<< <<<<"c", "o", "d", "e">>, Str(<<"k", "e">>)>>, <<KeyPracticeArea, Str(<<"A">>)>> >>),
     Dict(<< <<KeyPracticeArea, Str(<<"B">>)>>, <<KeyDescription, Str(<<"d">>)>> >>)}

\* what a tab of the sheet may hold when it is fetched
TabContents(tab) ==
    CASE tab = "countries" -> SeqsUpTo(CountryPool, MaxCountries)
      [] tab = "pefa" -> SeqsUpTo(PefaPool, MaxPefa)
      [] tab = "practices" -> SeqsUpTo(PracticePool, MaxPractices)

\* the <code> of a /country/<code> request
RequestCodes == {<<"k", "e">>, <<"Z", "Z">>, <<" ", NBSP>>, <<"t", "z", " ">>}

\* ------------------------------------------------------------------------
\* Requests
\* ------------------------------------------------------------------------
Init ==
    /\ HelpersOff
    /\ sheetVer = 0
    /\ pc = "idle"
    /\ route = "none"
    /\ code = <<>>
    /\ pending = <<>>
    /\ country_profiles = <<>>
    /\ pefa_rows = <<>>
    /\ practices_rows = <<>>
    /\ fetchLog = <<>>
    /\ outcome = "none"
    /\ view = NoView

\* GET /: overview() up to its first fetch
RequestOverview ==
    /\ pc = "idle"
    /\ route' = "overview"
    /\ pending' = <<"countries", "pefa", "practices">>
    /\ pc' = "fetch"
    /\ UNCHANGED <<hvars, sheetVer, code, country_profiles, pefa_rows, practices_rows,
                   fetchLog, outcome, view>>

\* GET /countries: countries() up to its fetch
RequestCountries ==
    /\ pc = "idle"
    /\ route' = "countries"
    /\ pending' = <<"countries">>
    /\ pc' = "fetch"
    /\ UNCHANGED <<hvars, sheetVer, code, country_profiles, pefa_rows, practices_rows,
                   fetchLog, outcome, view>>

\* GET /country/<code>: country(code) up to its first fetch
RequestCountry ==
    /\ pc = "idle"
    /\ \E raw \in RequestCodes : code' = norm_code(Str(raw))
    /\ route' = "country"
    /\ pending' = <<"countries", "pefa", "practices">>
    /\ pc' = "fetch"
    /\ UNCHANGED <<hvars, sheetVer, country_profiles, pefa_rows, practices_rows,
                   fetchLog, outcome, view>>

\* the assignment of a fetched table to the handler's local
Store(tab, rows) ==
    /\ country_profiles' = IF tab = "countries" THEN rows ELSE country_profiles
    /\ pefa_rows' = IF tab = "pefa" THEN rows ELSE pefa_rows
    /\ practices_rows' = IF tab = "practices" THEN rows ELSE practices_rows

\* a fetch that raises, taken as an empty table by the caller
FetchFailSwallowed ==
    /\ pc = "fetch"
    /\ Store(Head(pending), <<>>)
    /\ fetchLog' = Append(fetchLog, [tab |-> Head(pending), ok |-> FALSE, ver |-> sheetVer])
    /\ pending' = Tail(pending)
    /\ pc' = IF Tail(pending) = <<>> THEN "render" ELSE "fetch"
    /\ UNCHANGED <<hvars, sheetVer, route, code, outcome, view>>

\* fetch(tab) raises (connection error, timeout, raise_for_status, r.json()):
\* the exception leaves load_all_data and the handler
FetchFail ==
    /\ pc = "fetch"
    /\ fetchLog' = Append(fetchLog, [tab |-> Head(pending), ok |-> FALSE, ver |-> sheetVer])
    /\ outcome' = "error"
    /\ pc' = "done"
    /\ UNCHANGED <<hvars, sheetVer, route, code, pending, country_profiles, pefa_rows,
                   practices_rows, view>>

\* fetch(tab) returns r.json(): the rows the tab holds at this moment
FetchOk ==
    /\ pc = "fetch"
    /\ \E rows \in TabContents(Head(pending)) : Store(Head(pending), rows)
    /\ fetchLog' = Append(fetchLog, [tab |-> Head(pending), ok |-> TRUE, ver |-> sheetVer])
    /\ pending' = Tail(pending)
    /\ pc' = IF Tail(pending) = <<>> THEN "render" ELSE "fetch"
    /\ UNCHANGED <<hvars, sheetVer, route, code, outcome, view>>

\* overview() after load_all_data; avg_overall, dimension_avgs and ta_area_data
\* are not carried in the view of the model
overview ==
    /\ pc = "render" /\ route = "overview"
    /\ view' = [kind |-> "overview",
                summary_metrics |-> SummaryMetrics(country_profiles, practices_rows),
                band_counts |-> BandCounts(country_profiles),
                country_scores |-> SortByScoreDesc(CountryScores(country_profiles))]
    /\ outcome' = "view"
    /\ pc' = "done"
    /\ UNCHANGED <<hvars, sheetVer, route, code, pending, country_profiles, pefa_rows,
                   practices_rows, fetchLog>>

\* countries() after its fetch
countries ==
    /\ pc = "render" /\ route = "countries"
    /\ LET countries_list == SortByCountry(CountriesList(country_profiles))
       IN view' = [kind |-> "countries",
                   countries |-> countries_list,
                   map_data |-> MapData(countries_list)]
    /\ outcome' = "view"
    /\ pc' = "done"
    /\ UNCHANGED <<hvars, sheetVer, route, code, pending, country_profiles, pefa_rows,
                   practices_rows, fetchLog>>

\* country(code) without the abort(404): the lookups on None raise
country_noabort ==
    /\ pc = "render" /\ route = "country"
    /\ LET country_row == FindCountry(country_profiles, code)
       IN IF country_row.tag = "none"
          THEN outcome' = "error" /\ view' = NoView
          ELSE /\ outcome' = "view"
               /\ view' = [kind |-> "country",
                           country |-> CountryObj(country_row),
                           dims |-> Dims(country_row),
                           pefa |-> MapSeq(MatchingRows(pefa_rows, code), PefaEntry),
                           practices |-> MapSeq(MatchingRows(practices_rows, code), PracticeEntry)]
    /\ pc' = "done"
    /\ UNCHANGED <<hvars, sheetVer, route, code, pending, country_profiles, pefa_rows,
                   practices_rows, fetchLog>>

\* country(code) after load_all_data
country ==
    /\ pc = "render" /\ route = "country"
    /\ LET country_row == FindCountry(country_profiles, code)
       IN IF ~Truthy(country_row)
          THEN outcome' = "notfound" /\ view' = NoView
          ELSE /\ outcome' = "view"
               /\ view' = [kind |-> "country",
                           country |-> CountryObj(country_row),
                           dims |-> Dims(country_row),
                           pefa |-> MapSeq(MatchingRows(pefa_rows, code), PefaEntry),
                           practices |-> MapSeq(MatchingRows(practices_rows, code), PracticeEntry)]
    /\ pc' = "done"
    /\ UNCHANGED <<hvars, sheetVer, route, code, pending, country_profiles, pefa_rows,
                   practices_rows, fetchLog>>

Next ==
    \/ RequestOverview
    \/ RequestCountries
    \/ RequestCountry
    \/ FetchOk
    \/ FetchFail
    \/ overview
    \/ countries
    \/ country

Spec == Init /\ [][Next]_vars

\* ------------------------------------------------------------------------
\* Requests while the sheet is edited
\* ------------------------------------------------------------------------
\* somebody edits the sheet; the app holds no lock on it and reads no version
Update ==
    /\ sheetVer < MaxUpdates
    /\ sheetVer' = sheetVer + 1
    /\ UNCHANGED <<hvars, pc, route, code, pending, country_profiles, pefa_rows,
                   practices_rows, fetchLog, outcome, view>>

NextLive == Next \/ Update

SpecLive == Init /\ [][NextLive]_vars

\* ------------------------------------------------------------------------
\* Properties of the requests (Spec, SpecLive)
\* ------------------------------------------------------------------------
\* the code of a satellite row: the normalized value of its first code-like column
CodeLikeAt(row, i) == Contains(Lower(row.items[i][1]), <<"c", "o", "d", "e">>)

ExtractedCode(row) ==
    LET codeLike == {i \in 1..Len(row.items) : CodeLikeAt(row, i)}
    IN IF codeLike = {} THEN <<>>
       ELSE norm_code(row.items[CHOOSE i \in codeLike : \A j \in codeLike : i <= j][2])

\* the code of a row of the countries table
CountryCode(c) == norm_code(Get(c, KeyCode))

\* listed holds Entry of exactly the rows whose code is cd, in the order of rows
ListsExactly(listed, rows, cd, Entry(_)) ==
    LET keep == {i \in 1..Len(rows) : ExtractedCode(rows[i]) = cd}
    IN /\ Len(listed) = Cardinality(keep)
       /\ \A i \in keep : listed[Cardinality(keep \cap (1..i))] = Entry(rows[i])

AllFetched ==
    /\ Len(fetchLog) = 3
    /\ \A i \in 1..Len(fetchLog) : fetchLog[i].ok

\* C1: a country-detail view lists exactly the assessment rows and exactly the
\* practice rows whose extracted code equals the normalized requested code, in
\* source order, and that code is the code of a country of the table.
C1_DetailJoin ==
    (route = "country" /\ outcome = "view") =>
        /\ ListsExactly(view.pefa, pefa_rows, code, PefaEntry)
        /\ ListsExactly(view.practices, practices_rows, code, PracticeEntry)
        /\ \E i \in 1..Len(country_profiles) : CountryCode(country_profiles[i]) = code

\* /country/ke: of the assessments "ZZ" and "  ke ", only the second is listed,
\* and the practice "ke" is listed
C1_Witness ==
    /\ route = "country" /\ outcome = "view" /\ code = <<"K", "E">>
    /\ Len(pefa_rows) = 2
    /\ ExtractedCode(pefa_rows[1]) = <<"Z", "Z">>
    /\ Get(pefa_rows[2], KeyLatestPefaYear) = Str(<<"2", "0", "1", "9">>)
    /\ Len(view.pefa) = 1
    /\ view.pefa[1].latest_year = Str(<<"2", "0", "1", "9">>)
    /\ Len(view.practices) = 1

NoCountryMatches(profiles) ==
    \A i \in 1..Len(profiles) : CountryCode(profiles[i]) # code

\* C2 (as amended): a country-detail request whose three fetches succeeded and
\* whose code is the code of no row of the countries table ends in NotFound,
\* with no view.
C2_NotFoundWhenFetched ==
    (route = "country" /\ pc = "done" /\ AllFetched /\ NoCountryMatches(country_profiles)) =>
        (outcome = "notfound" /\ view = NoView)

\* /country/ZZ ended in NotFound although an assessment row carries "ZZ"
C2_Witness ==
    /\ route = "country" /\ pc = "done" /\ code = <<"Z", "Z">>
    /\ country_profiles # <<>>
    /\ \E i \in 1..Len(pefa_rows) : ExtractedCode(pefa_rows[i]) = <<"Z", "Z">>
    /\ outcome = "notfound"

\* C2 (as claimed): a country-detail request whose code is the code of no row
\* of the countries table it fetched always ends in NotFound.
C2_AlwaysNotFound ==
    (/\ route = "country" /\ pc = "done"
     /\ \E i \in 1..Len(fetchLog) : fetchLog[i].tab = "countries" /\ fetchLog[i].ok
     /\ NoCountryMatches(country_profiles)) =>
        outcome = "notfound"

\* C3 (as claimed): the empty code matches nothing: a request whose code
\* normalizes to "" gets no view, and no view lists a satellite row whose
\* extracted code is "".
C3_EmptyNeverMatches ==
    (route = "country" /\ pc = "done") =>
        /\ code = <<>> => outcome # "view"
        /\ outcome = "view" =>
              /\ Len(view.pefa) =
                     Cardinality({i \in 1..Len(pefa_rows) :
                         ExtractedCode(pefa_rows[i]) = code /\ ExtractedCode(pefa_rows[i]) # <<>>})
              /\ Len(view.practices) =
                     Cardinality({i \in 1..Len(practices_rows) :
                         ExtractedCode(practices_rows[i]) = code
                         /\ ExtractedCode(practices_rows[i]) # <<>>})

\* the band of the raw Overall Score cell of a row
RawBand(c) == score_band(Get(c, KeyOverallScore))

\* C5 (as claimed): in every view the band of a country is score_band of its raw
\* Overall Score cell: the histogram counts the rows by that band, and every
\* row listed in the ranking, the country list or the detail view carries it.
C5_BandFromRawCell ==
    /\ (route = "overview" /\ outcome = "view") =>
          /\ \A b \in Bands :
                view.band_counts[b] =
                    Cardinality({i \in 1..Len(country_profiles) : RawBand(country_profiles[i]) = b})
          /\ \A i \in 1..Len(country_profiles) :
                LET c == country_profiles[i]
                IN (Truthy(Or(Get(c, KeyCountry), Empty)) /\ CountryCode(c) # <<>>) =>
                      \E k \in 1..Len(view.country_scores) :
                          /\ view.country_scores[k].name = Get(c, KeyCountry)
                          /\ view.country_scores[k].url = Url(CountryCode(c))
                          /\ view.country_scores[k].band = RawBand(c)
    /\ (route = "countries" /\ outcome = "view") =>
          \A i \in 1..Len(country_profiles) :
              LET c == country_profiles[i]
              IN \E k \in 1..Len(view.countries) :
                     /\ view.countries[k].Country = Or(Get(c, KeyCountry), Empty)
                     /\ view.countries[k].Code = CountryCode(c)
                     /\ view.countries[k].ScoreBand = RawBand(c)
    /\ (route = "country" /\ outcome = "view") =>
          \E i \in 1..Len(country_profiles) :
              /\ CountryCode(country_profiles[i]) = code
              /\ view.country.ScoreBand = RawBand(country_profiles[i])

\* the Overall Score of a row as the ranking holds it
RowScore(c) == safe_float(Get(c, KeyOverallScore)).x

\* the rows the ranking lists: those with a Country and a Code
Listed(profiles) ==
    {i \in 1..Len(profiles) :
        Truthy(Or(Get(profiles[i], KeyCountry), Empty)) /\ CountryCode(profiles[i]) # <<>>}

\* ranking is the rows of profiles picked by chosen, one entry each, highest
\* score first and rows of equal score in the order of profiles
RanksStably(ranking, profiles, chosen) ==
    /\ Len(ranking) = Cardinality(chosen)
    /\ \E perm \in [1..Len(ranking) -> chosen] :
          /\ \A k, l \in 1..Len(ranking) : k # l => perm[k] # perm[l]
          /\ \A k \in 1..Len(ranking) :
                /\ ranking[k].name = Get(profiles[perm[k]], KeyCountry)
                /\ ranking[k].url = Url(CountryCode(profiles[perm[k]]))
                /\ ranking[k].score.x = RowScore(profiles[perm[k]])
          /\ \A k, l \in 1..Len(ranking) :
                k < l => \/ RowScore(profiles[perm[k]]) > RowScore(profiles[perm[l]])
                         \/ /\ RowScore(profiles[perm[k]]) = RowScore(profiles[perm[l]])
                            /\ perm[k] <= perm[l]

Required(r) == IF r = "countries" THEN {"countries"} ELSE TABS

\* C9: a failed fetch is the last fetch of its request, no tab is fetched
\* twice, the request then ends in the error with no view; and a view is
\* rendered only after every fetch of the handler succeeded.
C9_FailedFetchAborts ==
    /\ \A i, j \in 1..Len(fetchLog) : i # j => fetchLog[i].tab # fetchLog[j].tab
    /\ \A i \in 1..Len(fetchLog) :
          ~fetchLog[i].ok => (i = Len(fetchLog) /\ pc = "done" /\ outcome = "error" /\ view = NoView)
    /\ outcome \in {"view", "notfound"} =>
          /\ {fetchLog[i].tab : i \in 1..Len(fetchLog)} = Required(route)
          /\ \A i \in 1..Len(fetchLog) : fetchLog[i].ok
    /\ view # NoView => outcome = "view"

\* the countries tab was fetched, the pefa fetch failed: error, no view, and
\* the practices tab was never asked for
C9_Witness ==
    /\ pc = "done" /\ outcome = "error" /\ view = NoView
    /\ Len(fetchLog) = 2
    /\ fetchLog[1].ok /\ ~fetchLog[2].ok
    /\ country_profiles # <<>>
    /\ "practices" \notin {fetchLog[i].tab : i \in 1..Len(fetchLog)}

\* C10 (as claimed): every rendered view was computed from tables of one
\* version of the sheet.
C10_SingleSnapshot ==
    outcome = "view" =>
        \A i, j \in 1..Len(fetchLog) : fetchLog[i].ver = fetchLog[j].ver

====
